---------------------------- MODULE Spec2Model ----------------------------
(***************************************************************************)
(* A state-machine model of bing_download.py (class AerialImageRetrieval): *)
(* the batch loop retrieve_images, calculate_bounding_box, the resolution  *)
(* search and mosaic assembly of max_resolution_imagery_retrieval, and the *)
(* tile validity check is_valid_image with its null.png sentinel file.     *)
(*                                                                         *)
(* tilesystem.py (class TileSystem) is imported by bing_download.py but is *)
(* not among the source files; its functions are modelled from the         *)
(* specification text (section 4.1).                                       *)
(*                                                                         *)
(* Geography.  A latitude/longitude is represented by its normalised       *)
(* spherical-Mercator position, counted in GeoUnits-ths of the map edge    *)
(* (lon -> x from the west edge, lat -> y from the north edge).  One       *)
(* pixel of level MAXLEVEL is Sub such units, so positions between pixel   *)
(* centres exist and the rounding of latlong_to_pixelXY is observable.     *)
(* Floating-point error of the real projection is not modelled.            *)
(*                                                                         *)
(* Images.  A fetched tile is a record: the placeholder picture of the     *)
(* service or the imagery of one quadkey.  Image equality (line 36) is     *)
(* equality of that content.  Image.new and Image.save follow Pillow:      *)
(* Image.new raises ValueError for a negative width or height, and saving  *)
(* a JPEG of zero width or height raises.                                  *)
(***************************************************************************)
EXTENDS Integers, Sequences, FiniteSets, TLC

(***************************************************************************)
(* Bounds of the model                                                     *)
(***************************************************************************)
\* TileSystem.MAXLEVEL is 23 in the program; the model scales it down.
MAXLEVEL == 2
\* sub-pixel positions per MAXLEVEL pixel
Sub == 2
\* the longest batch of coordinates
MaxCoords == 2

(***************************************************************************)
(* Program constants                                                       *)
(***************************************************************************)
TILESIZE == 256

GeoUnits == Sub * TILESIZE * 2^MAXLEVEL

Abs(n) == IF n < 0 THEN -n ELSE n

(***************************************************************************)
(* TileSystem, from the specification                                      *)
(***************************************************************************)
clip(val, minval, maxval) == IF val < minval THEN minval
                             ELSE IF val > maxval THEN maxval ELSE val

map_size(level) == TILESIZE * 2^level

\* one axis of the forward projection: floor(clip(x * mapsize + 0.5, 0, mapsize - 1))
AxisToPixel(g, level) ==
    LET gc == clip(g, 0, GeoUnits)
    IN  clip((2 * gc * map_size(level) + GeoUnits) \div (2 * GeoUnits),
             0, map_size(level) - 1)

latlong_to_pixelXY(lat, lon, level) ==
    <<AxisToPixel(lon, level), AxisToPixel(lat, level)>>

\* the inverse projection of a (possibly fractional) pixel position, given in
\* Sub-ths of a pixel
AxisToGeo(pSub, level) ==
    (clip(pSub, 0, (map_size(level) - 1) * Sub) * GeoUnits) \div (Sub * map_size(level))

pixelXY_to_latlong(pixelXSub, pixelYSub, level) ==
    [lat |-> AxisToGeo(pixelYSub, level), lon |-> AxisToGeo(pixelXSub, level)]

pixelXY_to_tileXY(pixelX, pixelY) == <<pixelX \div TILESIZE, pixelY \div TILESIZE>>

\* metres per pixel: cos(latitude) * circumference / map_size(level).  The model
\* metre is half an equatorial MAXLEVEL pixel; the cosine is 1 in the band
\* around the equator and 1/2 in the polar quarters of the map.
ground_resolution(lat, level) ==
    (IF 4 * lat < GeoUnits \/ 4 * lat > 3 * GeoUnits THEN 1 ELSE 2)
        * 2^(MAXLEVEL - level)

\* digit i of the quadkey (most significant first): 2*bit(tileY) + bit(tileX)
tileXY_to_quadkey(tileX, tileY, level) ==
    [i \in 1..level |->
        2 * ((tileY \div 2^(level - i)) % 2) + ((tileX \div 2^(level - i)) % 2)]

(***************************************************************************)
(* Inputs                                                                  *)
(***************************************************************************)
\* centres (lat, lon), given by the MAXLEVEL pixel they fall in
Geo(pixelX, pixelY) == [lat |-> pixelY * Sub, lon |-> pixelX * Sub]

\* one where four tiles meet, one on the west edge of the map
Centers == { Geo(255, 511), Geo(0, 300) }

\* size_meters of the constructor (any number is accepted)
Sizes == { 0, 4, 120, -120, -1200 }

CoordLists == UNION { [1..n -> Centers] : n \in 1..MaxCoords }

(***************************************************************************)
(* Images                                                                  *)
(***************************************************************************)
NoFile == [kind |-> "absent", key |-> <<>>]
Placeholder == [kind |-> "placeholder", key |-> <<>>]
Imagery(quadkey) == [kind |-> "imagery", key |-> quadkey]

\* the quadkey is_valid_image fetches for the sentinel: '11111111111111111111'
NullQuadkey == [i \in 1..20 |-> 1]

\* what the service may answer for a quadkey
Answers(quadkey) == { Placeholder, Imagery(quadkey) }

\* an Image object: its picture, and the quadkey it was downloaded for
Img(pic, quadkey) == [pic |-> pic, from |-> quadkey]

NoImage == [size |-> <<0, 0>>, tiles |-> <<>>]

VARIABLES
    coords,        \* self.coords
    size_meters,   \* self.size_meters
    idx,           \* position of retrieve_images in self.coords
    pc,            \* position of the program
    box,           \* lat1, lon1, lat2, lon2 of the current coordinate
    level,         \* loop variable of line 74
    range,         \* tileX1, tileY1, tileX2, tileY2
    tileX, tileY,  \* loop variables of lines 86 and 88
    image,         \* the tile downloaded at line 90
    imagelist,     \* line 87
    result,        \* the raster of line 85
    nullFile,      \* content of ./null.png, or NoFile
    fetches,       \* every download_image call so far
    checks,        \* every comparison of line 36 so far
    saved,         \* every raster written at line 102
    returned,      \* what max_resolution_imagery_retrieval returned, per coordinate
    failedPrints,  \* coordinates for which line 114 printed
    exception,     \* the exception that ended the program, or "none"
    unit           \* a call of a TileSystem function on its own: input and output

vars == <<coords, size_meters, idx, pc, box, level, range, tileX, tileY, image,
          imagelist, result, nullFile, fetches, checks, saved, returned,
          failedPrints, exception, unit>>


(***************************************************************************)
(* Initial state: the object after __init__ (lines 21-24), before          *)
(* retrieve_images; ./null.png may be left over from an earlier run.       *)
(***************************************************************************)
NoUnit == [fn |-> "none", tileX |-> 0, tileY |-> 0, level |-> 0, quadkey |-> <<>>,
           done |-> FALSE]

Init ==
    /\ coords \in CoordLists
    /\ size_meters \in Sizes
    /\ nullFile \in {NoFile, Placeholder}
    /\ unit = NoUnit
    /\ idx = 1
    /\ pc = "coords"
    /\ box = [lat1 |-> 0, lon1 |-> 0, lat2 |-> 0, lon2 |-> 0]
    /\ level = 0
    /\ range = [tileX1 |-> 0, tileY1 |-> 0, tileX2 |-> 0, tileY2 |-> 0]
    /\ tileX = 0
    /\ tileY = 0
    /\ image = Img(NoFile, <<>>)
    /\ imagelist = <<>>
    /\ result = NoImage
    /\ fetches = <<>>
    /\ checks = <<>>
    /\ saved = <<>>
    /\ returned = <<>>
    /\ failedPrints = {}
    /\ exception = "none"

\* the per-box working variables
work == <<box, level, range, tileX, tileY, image, imagelist, result>>

(***************************************************************************)
(* calculate_bounding_box (lines 38-70)                                    *)
(***************************************************************************)
calculate_bounding_box(lat, lon) ==
    LET lvl == MAXLEVEL
        ground_res == ground_resolution(lat, lvl)
        half_size_pixels == (size_meters * Sub) \div (2 * ground_res)
        center == latlong_to_pixelXY(lat, lon, lvl)
        top == (map_size(lvl) - 1) * Sub
        pixelX1 == clip(center[1] * Sub - half_size_pixels, 0, top)
        pixelX2 == clip(center[1] * Sub + half_size_pixels, 0, top)
        pixelY1 == clip(center[2] * Sub - half_size_pixels, 0, top)
        pixelY2 == clip(center[2] * Sub + half_size_pixels, 0, top)
        p1 == pixelXY_to_latlong(pixelX1, pixelY1, lvl)
        p2 == pixelXY_to_latlong(pixelX2, pixelY2, lvl)
    IN  [lat1 |-> p1.lat, lon1 |-> p1.lon, lat2 |-> p2.lat, lon2 |-> p2.lon]

(***************************************************************************)
(* How a call of max_resolution_imagery_retrieval ends                     *)
(***************************************************************************)
\* `return success` (lines 80, 95, 104, 105) and the rest of the loop body of
\* retrieve_images (lines 112-114)
Return(success, why) ==
    /\ returned' = Append(returned, [coord |-> idx, success |-> success, why |-> why,
                                     level |-> level, range |-> range])
    /\ failedPrints' = IF success THEN failedPrints ELSE failedPrints \cup {idx}
    /\ idx' = idx + 1
    /\ pc' = "coords"
    /\ exception' = exception

\* an exception: nothing in the program catches it, so it leaves
\* max_resolution_imagery_retrieval, retrieve_images and main
Raise(exc) ==
    /\ pc' = "crashed"
    /\ exception' = exc
    /\ UNCHANGED <<returned, failedPrints, idx>>

(***************************************************************************)
(* retrieve_images (lines 107-114)                                         *)
(***************************************************************************)
NextCoord ==
    /\ pc = "coords"
    /\ idx <= Len(coords)
    /\ box' = calculate_bounding_box(coords[idx].lat, coords[idx].lon)
    /\ level' = MAXLEVEL
    /\ pc' = "level"
    /\ UNCHANGED <<unit, coords, size_meters, idx, range, tileX, tileY, image, imagelist,
                   result, nullFile, fetches, checks, saved, returned,
                   failedPrints, exception>>

Finish ==
    /\ pc = "coords"
    /\ idx > Len(coords)
    /\ pc' = "done"
    /\ UNCHANGED <<unit, coords, size_meters, idx, work, nullFile, fetches, checks, saved,
                   returned, failedPrints, exception>>

(***************************************************************************)
(* max_resolution_imagery_retrieval (lines 72-105)                         *)
(***************************************************************************)
\* line 78
CollapsedAnd(pixelX1, pixelY1, pixelX2, pixelY2) ==
    Abs(pixelX1 - pixelX2) <= 1 /\ Abs(pixelY1 - pixelY2) <= 1

Collapsed(pixelX1, pixelY1, pixelX2, pixelY2) ==
    Abs(pixelX1 - pixelX2) <= 1 \/ Abs(pixelY1 - pixelY2) <= 1

\* lines 79-80, with `continue` in place of `return False`
OnCollapseContinue ==
    /\ level' = level - 1
    /\ pc' = "level"
    /\ UNCHANGED <<returned, failedPrints, idx, exception, range, tileX, tileY, result>>

\* lines 79-80
OnCollapse ==
    /\ Return(FALSE, "NoImageryAtBoundingBox")
    /\ UNCHANGED <<level, range, tileX, tileY, result>>

\* Image.new('RGB', size) of Pillow: a negative width or height is a ValueError
ImageNewRaises(width, height) == width < 0 \/ height < 0

\* lines 74-86: one pass of the level loop up to the first row
SearchLevel ==
    /\ pc = "level"
    /\ IF level < 1
       THEN \* the range of line 74 is used up: line 105
            /\ Return(FALSE, "NoLevel")
            /\ UNCHANGED <<level, range, tileX, tileY, result>>
       ELSE LET p1 == latlong_to_pixelXY(box.lat1, box.lon1, level)
                p2 == latlong_to_pixelXY(box.lat2, box.lon2, level)
                t1 == pixelXY_to_tileXY(p1[1], p1[2])
                t2 == pixelXY_to_tileXY(p2[1], p2[2])
                width == (t2[1] - t1[1] + 1) * TILESIZE
                height == (t2[2] - t1[2] + 1) * TILESIZE
            IN  IF Collapsed(p1[1], p1[2], p2[1], p2[2])
                THEN OnCollapse
                ELSE IF ImageNewRaises(width, height)
                THEN /\ Raise("ValueError")
                     /\ UNCHANGED <<level, range, tileX, tileY, result>>
                ELSE /\ range' = [tileX1 |-> t1[1], tileY1 |-> t1[2],
                                  tileX2 |-> t2[1], tileY2 |-> t2[2]]
                     /\ result' = [size |-> <<width, height>>, tiles |-> <<>>]
                     /\ tileY' = t1[2]
                     /\ pc' = "row"
                     /\ UNCHANGED <<level, tileX, returned, failedPrints, idx, exception>>
    /\ UNCHANGED <<unit, coords, size_meters, box, image, imagelist, nullFile, fetches,
                   checks, saved>>

\* line 86: the head of the row loop
RowLoop ==
    /\ pc = "row"
    /\ IF tileY <= range.tileY2
       THEN /\ imagelist' = <<>>
            /\ tileX' = range.tileX1
            /\ pc' = "col"
       ELSE /\ pc' = "save"
            /\ UNCHANGED <<imagelist, tileX>>
    /\ UNCHANGED <<unit, coords, size_meters, idx, box, level, range, tileY, image, result,
                   nullFile, fetches, checks, saved, returned, failedPrints, exception>>

\* line 98: where tile number i of the row (from 0) is pasted into row_image
RowPasteOffsetFixed(i) == <<0, 0>>

RowPasteOffset(i) == <<i * TILESIZE, 0>>

\* lines 96-98: row_image
RowImage(images) ==
    [size |-> <<Len(images) * TILESIZE, TILESIZE>>,
     tiles |-> [i \in 1..Len(images) |-> [at |-> RowPasteOffset(i - 1),
                                           image |-> images[i]]]]

\* Image.paste(im, (x, y)): the tiles of im, moved by (x, y)
Paste(into, im, x, y) ==
    [into EXCEPT !.tiles =
        @ \o [i \in 1..Len(im.tiles) |->
                [at |-> <<im.tiles[i].at[1] + x, im.tiles[i].at[2] + y>>,
                 image |-> im.tiles[i].image]]]

\* line 88: the head of the column loop; lines 96-99 when the row is complete
ColLoop ==
    /\ pc = "col"
    /\ IF tileX <= range.tileX2
       THEN /\ pc' = "download"
            /\ UNCHANGED <<result, tileY>>
       ELSE /\ result' = Paste(result, RowImage(imagelist), 0,
                               (tileY - range.tileY1) * TILESIZE)
            /\ tileY' = tileY + 1
            /\ pc' = "row"
    /\ UNCHANGED <<unit, coords, size_meters, idx, box, level, range, tileX, image,
                   imagelist, nullFile, fetches, checks, saved, returned,
                   failedPrints, exception>>

\* line 89, with the level of the next coarser loop pass
QuadkeyOfCoarser(tx, ty, lvl) == tileXY_to_quadkey(tx, ty, lvl - 1)

\* line 89, with tileX passed for both indices
QuadkeyOfColumn(tx, ty, lvl) == tileXY_to_quadkey(tx, tx, lvl)

\* line 89
QuadkeyOf(tx, ty, lvl) == tileXY_to_quadkey(tx, ty, lvl)

Fetch(kind, quadkey, ok) ==
    [coord |-> idx, kind |-> kind, quadkey |-> quadkey, tileX |-> tileX,
     tileY |-> tileY, level |-> level, ok |-> ok]

\* lines 89-90 and download_image (lines 26-29): the service answers
DownloadOk ==
    /\ pc = "download"
    /\ \E answer \in Answers(QuadkeyOf(tileX, tileY, level)) :
          /\ image' = Img(answer, QuadkeyOf(tileX, tileY, level))
          /\ fetches' = Append(fetches, Fetch("tile", QuadkeyOf(tileX, tileY, level), TRUE))
    /\ pc' = "valid"
    /\ UNCHANGED <<unit, coords, size_meters, idx, box, level, range, tileX, tileY,
                   imagelist, result, nullFile, checks, saved, returned,
                   failedPrints, exception>>

\* lines 89-90 and download_image: urlopen or Image.open raises
DownloadFails ==
    /\ pc = "download"
    /\ fetches' = Append(fetches, Fetch("tile", QuadkeyOf(tileX, tileY, level), FALSE))
    /\ Raise("FetchError")
    /\ UNCHANGED <<unit, coords, size_meters, box, level, range, tileX, tileY, image,
                   imagelist, result, nullFile, checks, saved>>

(***************************************************************************)
(* is_valid_image (lines 31-36)                                            *)
(***************************************************************************)
\* line 33, with the test always failing
NullExistsNever == FALSE

\* line 33: os.path.exists('null.png')
NullExists == nullFile # NoFile

\* line 33 when the file is there
SentinelCached ==
    /\ pc = "valid"
    /\ NullExists
    /\ pc' = "compare"
    /\ UNCHANGED <<unit, coords, size_meters, idx, work, nullFile, fetches, checks, saved,
                   returned, failedPrints, exception>>

\* lines 33-35: the sentinel is downloaded and written to ./null.png
SentinelFetchOk ==
    /\ pc = "valid"
    /\ ~NullExists
    /\ \E answer \in Answers(NullQuadkey) : nullFile' = answer
    /\ fetches' = Append(fetches, Fetch("sentinel", NullQuadkey, TRUE))
    /\ pc' = "compare"
    /\ UNCHANGED <<unit, coords, size_meters, idx, work, checks, saved, returned,
                   failedPrints, exception>>

\* line 34 raises
SentinelFetchFails ==
    /\ pc = "valid"
    /\ ~NullExists
    /\ fetches' = Append(fetches, Fetch("sentinel", NullQuadkey, FALSE))
    /\ Raise("FetchError")
    /\ UNCHANGED <<unit, coords, size_meters, work, nullFile, checks, saved>>

\* lines 91-92, without moving to the next column
OnValidTileRetry ==
    /\ imagelist' = Append(imagelist, image)
    /\ pc' = "col"
    /\ UNCHANGED <<tileX, returned, failedPrints, idx, exception>>

\* lines 91-92 and the step of the loop of line 88
OnValidTile ==
    /\ imagelist' = Append(imagelist, image)
    /\ tileX' = tileX + 1
    /\ pc' = "col"
    /\ UNCHANGED <<returned, failedPrints, idx, exception>>

\* lines 93-95, with `continue` in place of `return False`
OnInvalidTileSkip ==
    /\ tileX' = tileX + 1
    /\ pc' = "col"
    /\ UNCHANGED <<imagelist, returned, failedPrints, idx, exception>>

\* lines 93-95
OnInvalidTile ==
    /\ Return(FALSE, "TileUnavailable")
    /\ UNCHANGED <<imagelist, tileX>>

\* line 36 and the branch of line 91
Compare ==
    /\ pc = "compare"
    /\ checks' = Append(checks, [coord |-> idx, image |-> image, against |-> nullFile,
                                 tileX |-> tileX, tileY |-> tileY,
                                 nfetch |-> Len(fetches)])
    /\ IF ~(image.pic = nullFile) THEN OnValidTile ELSE OnInvalidTile
    /\ UNCHANGED <<unit, coords, size_meters, box, level, range, tileY, image, result,
                   nullFile, fetches, saved>>

\* Image.save as JPEG of Pillow, never raising
ImageSaveNeverRaises(width, height) == FALSE

\* Image.save as JPEG of Pillow: an image of zero width or height cannot be written
ImageSaveRaises(width, height) == width <= 0 \/ height <= 0

\* lines 101-104
SaveImage ==
    /\ pc = "save"
    /\ IF ImageSaveRaises(result.size[1], result.size[2])
       THEN /\ Raise("SaveError")
            /\ UNCHANGED saved
       ELSE /\ saved' = Append(saved, [coord |-> idx, name |-> <<box.lat1, box.lon1>>,
                                       raster |-> result, range |-> range,
                                       level |-> level])
            /\ Return(TRUE, "Saved")
    /\ UNCHANGED <<unit, coords, size_meters, work, nullFile, fetches, checks>>

Next ==
    \/ NextCoord
    \/ Finish
    \/ SearchLevel
    \/ RowLoop
    \/ ColLoop
    \/ DownloadOk
    \/ DownloadFails
    \/ SentinelCached
    \/ SentinelFetchOk
    \/ SentinelFetchFails
    \/ Compare
    \/ SaveImage

Spec == Init /\ [][Next]_vars

(***************************************************************************)
(* Vocabulary of the properties                                            *)
(***************************************************************************)
Started == 1..(IF idx < Len(coords) THEN idx ELSE Len(coords))

FetchesOf(c) == SelectSeq(fetches, LAMBDA f : f.coord = c)
TileFetchesOf(c) == SelectSeq(fetches, LAMBDA f : f.coord = c /\ f.kind = "tile")
SentinelFetches == SelectSeq(fetches, LAMBDA f : f.kind = "sentinel")
ChecksOf(c) == SelectSeq(checks, LAMBDA k : k.coord = c)
SavedOf(c) == SelectSeq(saved, LAMBDA r : r.coord = c)
ReturnedOf(c) == SelectSeq(returned, LAMBDA r : r.coord = c)

\* the comparison of line 36 found the tile equal to the sentinel
Invalid(k) == k.image.pic = k.against

\* the call for coordinate c is over
Ended(c) == c < idx \/ pc = "crashed"

BoxOf(c) == calculate_bounding_box(coords[c].lat, coords[c].lon)
SpanX(b, lvl) == Abs(latlong_to_pixelXY(b.lat1, b.lon1, lvl)[1]
                     - latlong_to_pixelXY(b.lat2, b.lon2, lvl)[1])
SpanY(b, lvl) == Abs(latlong_to_pixelXY(b.lat1, b.lon1, lvl)[2]
                     - latlong_to_pixelXY(b.lat2, b.lon2, lvl)[2])

\* the tile range of coordinate c, once line 83 has computed it
RangeOf(c) == IF c = idx THEN range ELSE returned[c].range
Columns(r) == r.tileX2 - r.tileX1 + 1
Rows(r) == r.tileY2 - r.tileY1 + 1
GridSize(r) == IF Columns(r) <= 0 \/ Rows(r) <= 0 THEN 0 ELSE Columns(r) * Rows(r)
RowMajor(r) == [k \in 1..GridSize(r) |->
                   <<r.tileX1 + ((k - 1) % Columns(r)), r.tileY1 + ((k - 1) \div Columns(r))>>]

\* the inverse of tileXY_to_quadkey: <<tileX, tileY>> of the first n digits
RECURSIVE QuadkeyPrefixToTile(_, _)
QuadkeyPrefixToTile(q, n) ==
    IF n = 0 THEN <<0, 0>>
    ELSE LET p == QuadkeyPrefixToTile(q, n - 1)
         IN  <<2 * p[1] + (q[n] % 2), 2 * p[2] + (q[n] \div 2)>>

quadkey_to_tileXY(q) ==
    <<QuadkeyPrefixToTile(q, Len(q))[1], QuadkeyPrefixToTile(q, Len(q))[2], Len(q)>>

Levels == 1..MAXLEVEL
TileIndices(lvl) == 0..(2^lvl - 1)

(***************************************************************************)
(* The quadkey functions on their own: every in-range tile of every level  *)
(* is encoded, every digit string of every level is decoded.               *)
(***************************************************************************)
UnitInputs ==
    UNION { [fn : {"tileXY_to_quadkey"}, tileX : TileIndices(lvl), tileY : TileIndices(lvl),
             level : {lvl}, quadkey : {<<>>}, done : {FALSE}] : lvl \in Levels }
    \cup UNION { [fn : {"quadkey_to_tileXY"}, tileX : {0}, tileY : {0}, level : {0},
                  quadkey : [1..lvl -> 0..3], done : {FALSE}] : lvl \in Levels }

UnitInit ==
    /\ unit \in UnitInputs
    /\ pc = "unit"
    /\ coords = <<>>
    /\ size_meters = 0
    /\ nullFile = NoFile
    /\ idx = 1
    /\ box = [lat1 |-> 0, lon1 |-> 0, lat2 |-> 0, lon2 |-> 0]
    /\ level = 0
    /\ range = [tileX1 |-> 0, tileY1 |-> 0, tileX2 |-> 0, tileY2 |-> 0]
    /\ tileX = 0
    /\ tileY = 0
    /\ image = Img(NoFile, <<>>)
    /\ imagelist = <<>>
    /\ result = NoImage
    /\ fetches = <<>>
    /\ checks = <<>>
    /\ saved = <<>>
    /\ returned = <<>>
    /\ failedPrints = {}
    /\ exception = "none"

program == <<coords, size_meters, idx, pc, work, nullFile, fetches, checks, saved,
             returned, failedPrints, exception>>

EncodeTile ==
    /\ pc = "unit"
    /\ unit.fn = "tileXY_to_quadkey"
    /\ ~unit.done
    /\ unit' = [unit EXCEPT !.quadkey = tileXY_to_quadkey(unit.tileX, unit.tileY, unit.level),
                            !.done = TRUE]
    /\ UNCHANGED program

DecodeQuadkey ==
    /\ pc = "unit"
    /\ unit.fn = "quadkey_to_tileXY"
    /\ ~unit.done
    /\ unit' = [unit EXCEPT !.tileX = quadkey_to_tileXY(unit.quadkey)[1],
                            !.tileY = quadkey_to_tileXY(unit.quadkey)[2],
                            !.level = quadkey_to_tileXY(unit.quadkey)[3],
                            !.done = TRUE]
    /\ UNCHANGED program

\* the program, and beside it the quadkey functions on every input
QuadkeyInit == Init \/ UnitInit

QuadkeyNext == Next \/ EncodeTile \/ DecodeQuadkey

SpecQuadkey == QuadkeyInit /\ [][QuadkeyNext]_vars

(***************************************************************************)
(* C1: once a tile is found equal to the sentinel, or a download fails,    *)
(* the assembly of that box is over and has failed: nothing more is        *)
(* downloaded for the box, every download of the box was at one level,     *)
(* and no raster is saved for it.                                          *)
(***************************************************************************)
C1_FailFast ==
    \A c \in Started :
        LET ck == ChecksOf(c)
        IN  /\ \A i \in 1..Len(ck) : Invalid(ck[i]) =>
                  /\ i = Len(ck)
                  /\ \A j \in 1..Len(fetches) :
                        fetches[j].coord = c => j <= ck[i].nfetch
                  /\ c < idx
                  /\ c \in failedPrints
                  /\ Len(ReturnedOf(c)) = 1
                  /\ ReturnedOf(c)[1].why = "TileUnavailable"
            /\ \A j \in 1..Len(fetches) : (fetches[j].coord = c /\ ~fetches[j].ok) =>
                  /\ j = Len(fetches)
                  /\ pc = "crashed"
                  /\ Len(ReturnedOf(c)) = 0
            /\ ((\E i \in 1..Len(ck) : Invalid(ck[i]))
                    \/ (\E j \in 1..Len(fetches) : fetches[j].coord = c /\ ~fetches[j].ok)) =>
                  /\ Ended(c)
                  /\ Len(SavedOf(c)) = 0
                  /\ \A i \in 1..Len(ReturnedOf(c)) : ~ReturnedOf(c)[i].success
                  /\ \A j \in 1..Len(FetchesOf(c)) :
                        FetchesOf(c)[j].level = FetchesOf(c)[1].level

\* an invalid tile ended an assembly that had tiles left to fetch
C1_Witness ==
    \E i \in 1..Len(returned) :
        /\ returned[i].why = "TileUnavailable"
        /\ Len(TileFetchesOf(returned[i].coord)) < GridSize(returned[i].range)
        /\ Len(SavedOf(returned[i].coord)) = 0

(***************************************************************************)
(* C2: tiles are downloaded at a level only if the corners are more than   *)
(* one pixel apart in both axes at that level; a box that is not, at       *)
(* MAXLEVEL, gets no download and no save, and its call returns False at   *)
(* MAXLEVEL with the message of line 79.                                   *)
(***************************************************************************)
C2_SpanGuard ==
    \A c \in Started :
      LET b == BoxOf(c)
      IN
        /\ \A j \in 1..Len(fetches) :
              (fetches[j].coord = c /\ fetches[j].kind = "tile") =>
                  /\ SpanX(b, fetches[j].level) > 1
                  /\ SpanY(b, fetches[j].level) > 1
        /\ (SpanX(b, MAXLEVEL) <= 1 \/ SpanY(b, MAXLEVEL) <= 1) =>
              /\ Len(FetchesOf(c)) = 0
              /\ Len(SavedOf(c)) = 0
              /\ c = idx => (pc \in {"coords", "level"} /\ (pc = "level" => level = MAXLEVEL))
              /\ c < idx =>
                    /\ Len(ReturnedOf(c)) = 1
                    /\ ~ReturnedOf(c)[1].success
                    /\ ReturnedOf(c)[1].why = "NoImageryAtBoundingBox"
                    /\ ReturnedOf(c)[1].level = MAXLEVEL
                    /\ c \in failedPrints

\* both corners round to the same pixel, and the call has returned
C2_Witness ==
    \E i \in 1..Len(returned) :
        /\ returned[i].why = "NoImageryAtBoundingBox"
        /\ SpanX(BoxOf(returned[i].coord), MAXLEVEL) = 0
        /\ SpanY(BoxOf(returned[i].coord), MAXLEVEL) = 0

(***************************************************************************)
(* C3: a saved raster measures (columns * 256, rows * 256) of its tile     *)
(* range; every tile of the range was downloaded once, checked once and    *)
(* pasted once, at ((tileX - tileX1) * 256, (tileY - tileY1) * 256); no    *)
(* two pasted tiles overlap and every cell of the grid holds one.          *)
(***************************************************************************)
C3_Mosaic ==
    \A n \in 1..Len(saved) :
        LET s == saved[n]
            r == s.range
            placed == s.raster.tiles
            tf == TileFetchesOf(s.coord)
            ck == ChecksOf(s.coord)
        IN  /\ s.raster.size = <<Columns(r) * TILESIZE, Rows(r) * TILESIZE>>
            /\ Len(placed) = GridSize(r)
            /\ \A x \in r.tileX1..r.tileX2 : \A y \in r.tileY1..r.tileY2 :
                  /\ Cardinality({i \in 1..Len(tf) :
                        tf[i].tileX = x /\ tf[i].tileY = y /\ tf[i].ok}) = 1
                  /\ Cardinality({i \in 1..Len(ck) :
                        /\ ck[i].tileX = x /\ ck[i].tileY = y /\ ~Invalid(ck[i])
                        /\ ck[i].image.from = tileXY_to_quadkey(x, y, s.level)}) = 1
                  /\ Cardinality({i \in 1..Len(placed) :
                        placed[i].image.from = tileXY_to_quadkey(x, y, s.level)}) = 1
                  /\ Cardinality({i \in 1..Len(placed) :
                        /\ placed[i].at = <<(x - r.tileX1) * TILESIZE,
                                            (y - r.tileY1) * TILESIZE>>
                        /\ placed[i].image.from = tileXY_to_quadkey(x, y, s.level)}) = 1
            /\ \A i, j \in 1..Len(placed) : i # j =>
                  \/ Abs(placed[i].at[1] - placed[j].at[1]) >= TILESIZE
                  \/ Abs(placed[i].at[2] - placed[j].at[2]) >= TILESIZE
            /\ \A i \in 1..Len(placed) :
                  /\ placed[i].at[1] >= 0 /\ placed[i].at[1] + TILESIZE <= s.raster.size[1]
                  /\ placed[i].at[2] >= 0 /\ placed[i].at[2] + TILESIZE <= s.raster.size[2]

\* a mosaic of two rows and two columns was saved
C3_Witness ==
    \E n \in 1..Len(saved) :
        /\ Columns(saved[n].range) = 2
        /\ Rows(saved[n].range) = 2
        /\ Len(saved[n].raster.tiles) = 4

(***************************************************************************)
(* C5: the tiles of one assembly are downloaded in row-major order of its  *)
(* tile range, each index at most once, and between two downloads of an    *)
(* assembly the earlier tile has been checked.                             *)
(***************************************************************************)
C5_RowMajor ==
    \A c \in Started :
        LET tf == TileFetchesOf(c)
            order == RowMajor(RangeOf(c))
        IN  /\ Len(tf) <= Len(order)
            /\ \A k \in 1..Len(tf) : <<tf[k].tileX, tf[k].tileY>> = order[k]
            /\ \A i, j \in 1..Len(fetches) :
                  (/\ i < j
                   /\ fetches[i].coord = c /\ fetches[i].kind = "tile"
                   /\ fetches[j].coord = c /\ fetches[j].kind = "tile") =>
                      /\ <<fetches[i].tileX, fetches[i].tileY>>
                            # <<fetches[j].tileX, fetches[j].tileY>>
                      /\ \E k \in 1..Len(checks) :
                            /\ checks[k].coord = c
                            /\ checks[k].tileX = fetches[i].tileX
                            /\ checks[k].tileY = fetches[i].tileY
                            /\ i <= checks[k].nfetch
                            /\ checks[k].nfetch < j

\* the fourth tile of a two-by-two grid has been downloaded
C5_Witness ==
    /\ idx <= Len(coords)
    /\ pc = "valid"
    /\ Columns(range) = 2
    /\ Rows(range) = 2
    /\ Len(TileFetchesOf(idx)) = 4

(***************************************************************************)
(* C6: tileXY_to_quadkey of an in-range tile at level L has L digits,      *)
(* each in 0..3; every quadkey downloaded for a tile has as many digits    *)
(* as the level of its assembly.                                           *)
(***************************************************************************)
C6_QuadkeyLength ==
    /\ (unit.fn = "tileXY_to_quadkey" /\ unit.done) =>
          /\ Len(unit.quadkey) = unit.level
          /\ \A i \in 1..Len(unit.quadkey) : unit.quadkey[i] \in 0..3
    /\ \A j \in 1..Len(fetches) : fetches[j].kind = "tile" =>
          /\ fetches[j].level \in Levels
          /\ fetches[j].tileX \in TileIndices(fetches[j].level)
          /\ fetches[j].tileY \in TileIndices(fetches[j].level)
          /\ Len(fetches[j].quadkey) = fetches[j].level
          /\ \A i \in 1..Len(fetches[j].quadkey) : fetches[j].quadkey[i] \in 0..3

\* the quadkey of the last tile of the finest level has been computed
C6_Witness ==
    /\ unit.fn = "tileXY_to_quadkey"
    /\ unit.done
    /\ unit.level = MAXLEVEL
    /\ unit.tileX = 2^MAXLEVEL - 1
    /\ unit.tileY = 2^MAXLEVEL - 1
    /\ Len(unit.quadkey) = MAXLEVEL

(***************************************************************************)
(* C7: tileXY_to_quadkey is a bijection between the in-range tiles of a    *)
(* level L and the digit strings of length L, with quadkey_to_tileXY its   *)
(* inverse; the quadkey downloaded for a tile decodes to that tile, so     *)
(* two tiles of one mosaic never share a quadkey.                          *)
(***************************************************************************)
C7_QuadkeyBijection ==
    /\ (unit.fn = "tileXY_to_quadkey" /\ unit.done) =>
          quadkey_to_tileXY(unit.quadkey) = <<unit.tileX, unit.tileY, unit.level>>
    /\ (unit.fn = "quadkey_to_tileXY" /\ unit.done) =>
          /\ unit.level = Len(unit.quadkey)
          /\ unit.tileX \in TileIndices(unit.level)
          /\ unit.tileY \in TileIndices(unit.level)
          /\ tileXY_to_quadkey(unit.tileX, unit.tileY, unit.level) = unit.quadkey
    /\ \A j \in 1..Len(fetches) : fetches[j].kind = "tile" =>
          quadkey_to_tileXY(fetches[j].quadkey)
              = <<fetches[j].tileX, fetches[j].tileY, fetches[j].level>>
    /\ \A i, j \in 1..Len(fetches) :
          (/\ fetches[i].kind = "tile" /\ fetches[j].kind = "tile"
           /\ fetches[i].coord = fetches[j].coord
           /\ <<fetches[i].tileX, fetches[i].tileY>> # <<fetches[j].tileX, fetches[j].tileY>>)
              => fetches[i].quadkey # fetches[j].quadkey

\* a digit string of the finest level has been decoded to a tile whose
\* indices differ
C7_Witness ==
    /\ unit.fn = "quadkey_to_tileXY"
    /\ unit.done
    /\ unit.level = MAXLEVEL
    /\ unit.tileX # unit.tileY
    /\ tileXY_to_quadkey(unit.tileX, unit.tileY, unit.level) = unit.quadkey

(***************************************************************************)
(* C4 (the claim as stated): when the program has stopped and nothing but  *)
(* a collapsed box, a placeholder tile or a failed download went wrong,    *)
(* every coordinate of the batch has been attempted.                       *)
(***************************************************************************)
C4_BatchContinues ==
    (pc \in {"done", "crashed"} /\ exception \in {"none", "FetchError"}) =>
        \A c \in 1..Len(coords) : c < idx \/ (c = idx /\ pc = "crashed")

(***************************************************************************)
(* C8: the sentinel is downloaded at most once, for the reserved quadkey   *)
(* and before any comparison; every comparison is made against the one     *)
(* content of ./null.png.                                                  *)
(***************************************************************************)
C8_SentinelOnce ==
    /\ Len(SentinelFetches) <= 1
    /\ \A j \in 1..Len(fetches) : fetches[j].kind = "sentinel" =>
          /\ fetches[j].quadkey = NullQuadkey
          /\ \A k \in 1..Len(checks) : j <= checks[k].nfetch
    /\ \A k \in 1..Len(checks) :
          /\ checks[k].against # NoFile
          /\ checks[k].against = checks[1].against
          /\ checks[k].against = nullFile

\* the sentinel was downloaded, and three tiles have been compared with it
C8_Witness ==
    /\ Len(SentinelFetches) = 1
    /\ SentinelFetches[1].ok
    /\ Len(checks) >= 3

(***************************************************************************)
(* C9: the body of the level loop runs at MAXLEVEL only: pixel corners,    *)
(* downloads, saves and every return happen at MAXLEVEL, and the return    *)
(* after the loop (line 105) is never taken.                               *)
(***************************************************************************)
C9_FirstPassOnly ==
    /\ pc \in {"level", "row", "col", "download", "valid", "compare", "save"} =>
          level = MAXLEVEL
    /\ \A j \in 1..Len(fetches) : fetches[j].kind = "tile" => fetches[j].level = MAXLEVEL
    /\ \A n \in 1..Len(saved) : saved[n].level = MAXLEVEL
    /\ \A i \in 1..Len(returned) :
          /\ returned[i].level = MAXLEVEL
          /\ returned[i].why \in {"NoImageryAtBoundingBox", "TileUnavailable", "Saved"}

\* one call returned on a collapse and another after saving
C9_Witness ==
    \E i, j \in 1..Len(returned) :
        /\ returned[i].why = "NoImageryAtBoundingBox"
        /\ returned[j].why = "Saved"

(***************************************************************************)
(* C10: a call that returns True had a tile range that is not empty in     *)
(* either axis, downloaded and checked at least one tile, and saved a      *)
(* raster of positive width and height.                                    *)
(***************************************************************************)
C10_SuccessHasTiles ==
    \A i \in 1..Len(returned) : returned[i].success =>
        LET c == returned[i].coord
            r == returned[i].range
        IN  /\ r.tileX1 <= r.tileX2
            /\ r.tileY1 <= r.tileY2
            /\ \E j \in 1..Len(fetches) :
                  fetches[j].coord = c /\ fetches[j].kind = "tile" /\ fetches[j].ok
            /\ \E k \in 1..Len(checks) : checks[k].coord = c /\ ~Invalid(checks[k])
            /\ Len(SavedOf(c)) = 1
            /\ SavedOf(c)[1].raster.size[1] > 0
            /\ SavedOf(c)[1].raster.size[2] > 0
            /\ Len(SavedOf(c)[1].raster.tiles) >= 1

\* a box whose corners are in swapped order was saved
C10_Witness ==
    \E i \in 1..Len(returned) :
        /\ returned[i].success
        /\ BoxOf(returned[i].coord).lon1 > BoxOf(returned[i].coord).lon2
        /\ BoxOf(returned[i].coord).lat1 > BoxOf(returned[i].coord).lat2
=============================================================================
